---- MODULE Spec2Model ----
(***************************************************************************)
(* Model of Content/Python/init_unreal.py: the HTTP listener thread, the   *)
(* two lock-protected lane queues, the per-request ExecutionContext and    *)
(* the Slate post-tick callback that drains both queues on the game        *)
(* thread and runs each script through _execute_context.                   *)
(***************************************************************************)
EXTENDS Integers, Sequences, FiniteSets, TLC

\* Number of ExecutionContext objects the listener may create in one run.
MaxCtx == 2

Lanes == {"editor", "game"}

CtxIds == 1..MaxCtx

\* Scripts a client can send, by what exec() does with them:
\*   mutate : result['x'] = 1 + 1            (in-place mutation)
\*   rebind : result = {...}                 (rebinds the name in the namespace)
\*   fault  : result['x'] = 2; result = {...}; raise ValueError
\*            (mutates, then rebinds, then raises an Exception subclass)
\*   escape : raise SystemExit               (BaseException, not an Exception)
Scripts == {"mutate", "rebind", "fault", "escape"}

\* Values of ctx.result: the initial {}, the dict after result['x']=1+1,
\* and the new object a rebinding script leaves in the namespace.
ResultVals == {"empty", "x2", "new"}

\* Values of ctx.error: None, the timeout text of wait(), the traceback text.
ErrorVals == {"None", "timeout", "traceback"}

\* JSON values of the "timeout" member, by what float() does with them:
\* absent (the default 30 is used), a string float() parses ("5"), a string
\* float() rejects ("soon").
Timeouts == {"missing", "numstring", "badstring"}

\* Request bodies by what json.loads and body.get do with them.
Bodies == {"undecodable", "nonobject", "object"}

\* Values of the "mode" member: absent (the default "editor" is used, as for
\* an explicit "editor"), "game", and a name that is no lane.
Modes == {"missing", "game", "unknown"}

Paths == {"/execute", "/other"}

\* The requests a client sends.  A member that the handler never reads on
\* the request's path (the body of a request for another path, the members
\* of a body that is not an object, the script of a request that is not
\* accepted) is fixed to one value.  How a payload is run does not depend on
\* its lane: the requests for the game lane carry one script that ends
\* normally and one whose exception is not caught.
Requests ==
    [path : {"/other"}, body : {"object"}, mode : {"missing"},
     script : {"mutate"}, timeout : {"missing"}]
    \cup
    [path : {"/execute"}, body : {"undecodable", "nonobject"}, mode : {"missing"},
     script : {"mutate"}, timeout : {"missing"}]
    \cup
    [path : {"/execute"}, body : {"object"}, mode : {"missing", "unknown"},
     script : {"mutate"}, timeout : {"badstring"}]
    \cup
    [path : {"/execute"}, body : {"object"}, mode : {"unknown"},
     script : {"mutate"}, timeout : {"missing"}]
    \cup
    [path : {"/execute"}, body : {"object"}, mode : {"missing"},
     script : Scripts, timeout : {"missing", "numstring"}]
    \cup
    [path : {"/execute"}, body : {"object"}, mode : {"game"},
     script : {"mutate", "escape"}, timeout : {"missing"}]

\* Variant of LaneOrder: the game queue is drained first.
LaneOrderSwapped == <<"game", "editor">>

\* _on_slate_post_tick drains the editor queue first, then the game queue.
LaneOrder == <<"editor", "game">>

FirstLane == LaneOrder[1]

NoResponse == [status |-> 0, success |-> FALSE, error |-> "None", result |-> "empty"]

VARIABLES
    queue,      \* lane -> ThreadSafeQueue._items
    lock,       \* lane -> holder of ThreadSafeQueue._lock
    nctx,       \* number of ExecutionContext objects created so far
    script,     \* ctx -> ExecutionContext.script
    ctxlane,    \* ctx -> the mode of its request ("editor" or "game")
    result,     \* ctx -> ExecutionContext.result
    error,      \* ctx -> ExecutionContext.error
    done,       \* ctx -> ExecutionContext.done (the Event's flag)
    lpc,        \* listener thread: position inside do_POST / do_GET
    lctx,       \* listener thread: the local ctx of do_POST (0 = none)
    lreq,       \* listener thread: a request that ends without a context
    lbranch,    \* listener thread: outcome of `if self.error` in to_response
    lastResp,   \* listener thread: what was written to the socket for lreq
    sizes,      \* listener thread: lane -> len() taken by do_GET (-1 = not yet)
    responses,  \* ctx -> response written by do_POST for that context
    tpc,        \* game thread: position inside _on_slate_post_tick
    tlane,      \* game thread: the queue being drained
    items,      \* game thread: the local `items` of drain()
    batch,      \* game thread: what the for loop of _drain_queue has left
    cur,        \* game thread: the ctx inside _execute_context (0 = none)
    ns,         \* game thread: namespace["result"] of _execute_context
    pushLog,    \* history: lane -> contexts in the order they were appended
    drainLog,   \* history: lane -> concatenation of the batches drain() returned
    execLog,    \* history: contexts in the order _execute_context was entered
    setCount,   \* history: ctx -> number of done.set() calls
    tickBatch,  \* history: <<lane, batch>> of each drain() of the running tick
    waited      \* history: ctx -> how wait() returned ("no", "signaled", "timeout")

qvars == <<queue, lock>>
cvars == <<nctx, script, ctxlane, result, error, done>>
lvars == <<lpc, lctx, lreq, lbranch, lastResp, sizes, responses>>
tvars == <<tpc, tlane, items, batch, cur, ns>>
hvars == <<pushLog, drainLog, execLog, setCount, tickBatch, waited>>
vars == <<qvars, cvars, lvars, tvars, hvars>>

AnyRequest == [path |-> "/execute", body |-> "object", mode |-> "editor",
               script |-> "mutate", timeout |-> "missing"]

Init ==
    /\ queue = [L \in Lanes |-> <<>>]
    /\ lock = [L \in Lanes |-> "free"]
    /\ nctx = 0
    /\ script = [c \in CtxIds |-> "mutate"]
    /\ ctxlane = [c \in CtxIds |-> "editor"]
    /\ result = [c \in CtxIds |-> "empty"]
    /\ error = [c \in CtxIds |-> "None"]
    /\ done = [c \in CtxIds |-> FALSE]
    /\ lpc = "idle"
    /\ lctx = 0
    /\ lreq = AnyRequest
    /\ lbranch = FALSE
    /\ lastResp = NoResponse
    /\ sizes = [L \in Lanes |-> -1]
    /\ responses = [c \in CtxIds |-> NoResponse]
    /\ tpc = "idle"
    /\ tlane = FirstLane
    /\ items = <<>>
    /\ batch = <<>>
    /\ cur = 0
    /\ ns = [rebound |-> FALSE, val |-> "empty"]
    /\ pushLog = [L \in Lanes |-> <<>>]
    /\ drainLog = [L \in Lanes |-> <<>>]
    /\ execLog = <<>>
    /\ setCount = [c \in CtxIds |-> 0]
    /\ tickBatch = <<>>
    /\ waited = [c \in CtxIds |-> "no"]

----------------------------------------------------------------------------
\* ThreadSafeQueue

\* Variant of LockFree: the critical sections are entered without the lock.
LockFreeUnlocked(L) == TRUE

\* `with self._lock:` can be entered only while no thread holds the lock.
LockFree(L) == lock[L] = "free"

\* Variant of AppendItem: the item is inserted at the head.
PrependItem(q, c) == <<c>> \o q

\* self._items.append(item)
AppendItem(q, c) == Append(q, c)

\* Variant of CopyItems: the copy of an empty list holds a context.
CopyItemsNeverEmpty(q) == IF q = <<>> THEN <<1>> ELSE q

\* items = self._items[:]
CopyItems(q) == q

\* Variant of ClearItems: drain returns the copy and leaves the list as it is.
ClearItemsKept(q) == q

\* self._items.clear()
ClearItems(q) == <<>>

----------------------------------------------------------------------------
\* _RequestHandler.do_POST up to the creation of the context

\* float(body.get("timeout", 30)) returns a number.
FloatOK(t) == t \in {"missing", "numstring"}

\* body.get("mode", "editor")
ModeOf(r) == IF r.mode = "missing" THEN "editor" ELSE r.mode

\* What lines 153-175 do with a request: "404", "400" (json.loads failed),
\* "raise" (an exception leaves do_POST, nothing is written to the socket),
\* "400mode" (unknown mode) or "accept".
Decode(r) ==
    IF r.path # "/execute" THEN "404"
    ELSE IF r.body = "undecodable" THEN "400"
    ELSE IF r.body = "nonobject" THEN "raise"
    ELSE IF ~FloatOK(r.timeout) THEN "raise"
    ELSE IF ModeOf(r) \notin {"editor", "game"} THEN "400mode"
    ELSE "accept"

\* Variant of DecodeResponse: validation errors are sent with status 200.
DecodeResponseAlways200(r) ==
    CASE Decode(r) = "404" ->
           [status |-> 404, success |-> FALSE, error |-> "Not found", result |-> "empty"]
      [] Decode(r) = "400" ->
           [status |-> 200, success |-> FALSE, error |-> "Bad request", result |-> "empty"]
      [] Decode(r) = "400mode" ->
           [status |-> 200, success |-> FALSE, error |-> "Unknown mode", result |-> "empty"]
      [] OTHER -> NoResponse

DecodeResponse(r) ==
    CASE Decode(r) = "404" ->
           [status |-> 404, success |-> FALSE, error |-> "Not found", result |-> "empty"]
      [] Decode(r) = "400" ->
           [status |-> 400, success |-> FALSE, error |-> "Bad request", result |-> "empty"]
      [] Decode(r) = "400mode" ->
           [status |-> 400, success |-> FALSE, error |-> "Unknown mode", result |-> "empty"]
      [] OTHER -> NoResponse

\* Variant of ServerIdle: a threading server, which takes the next request
\* whatever the handler of the previous one is doing.
ServerIdleThreaded == TRUE

\* HTTPServer.serve_forever on the one server thread: the next request is
\* taken only when the handler of the previous one has returned.
ServerIdle == lpc = "idle"

\* do_POST for a request that is answered (or dies) before a context exists:
\* the response, if any, is written.
DoPostReject ==
    /\ ServerIdle
    /\ \E r \in Requests :
         /\ Decode(r) # "accept"
         /\ lreq' = r
         /\ lastResp' = DecodeResponse(r)
    /\ lpc' = "rejected"
    /\ UNCHANGED <<lctx, lbranch, sizes, responses>>
    /\ UNCHANGED <<qvars, cvars, tvars, hvars>>

\* do_POST returns (or its exception ends the handler) after such a request;
\* the listener goes back to serve_forever.
DoPostReturn ==
    /\ lpc = "rejected"
    /\ lpc' = "idle"
    /\ lreq' = AnyRequest
    /\ lastResp' = NoResponse
    /\ UNCHANGED <<lctx, lbranch, sizes, responses>>
    /\ UNCHANGED <<qvars, cvars, tvars, hvars>>

\* do_POST for a valid request: ctx = ExecutionContext(script, params, timeout).
DoPostAccept ==
    /\ ServerIdle
    /\ nctx < MaxCtx
    /\ \E r \in Requests :
         /\ Decode(r) = "accept"
         /\ nctx' = nctx + 1
         /\ lctx' = nctx + 1
         /\ script' = [script EXCEPT ![nctx + 1] = r.script]
         /\ ctxlane' = [ctxlane EXCEPT ![nctx + 1] = ModeOf(r)]
    /\ lpc' = "push_lock"
    /\ UNCHANGED <<result, error, done, lreq, lbranch, lastResp, sizes, responses>>
    /\ UNCHANGED <<qvars, tvars, hvars>>

\* Variant of PushLane: the two branches of the if statement are exchanged.
PushLaneSwapped(m) == IF m = "editor" THEN "game" ELSE "editor"

\* if mode == "editor": _editor_queue.push(ctx) else: _game_queue.push(ctx)
PushLane(m) == IF m = "editor" THEN "editor" ELSE "game"

\* push: `with self._lock:`
PushAcquire ==
    /\ lpc = "push_lock"
    /\ LockFree(PushLane(ctxlane[lctx]))
    /\ lock' = [lock EXCEPT ![PushLane(ctxlane[lctx])] = "listener"]
    /\ lpc' = "push_append"
    /\ UNCHANGED <<queue, lctx, lreq, lbranch, lastResp, sizes, responses>>
    /\ UNCHANGED <<cvars, tvars, hvars>>

\* push: self._items.append(item), then the lock is released
PushAppend ==
    /\ lpc = "push_append"
    /\ queue' = [queue EXCEPT ![PushLane(ctxlane[lctx])] = AppendItem(@, lctx)]
    /\ pushLog' = [pushLog EXCEPT ![PushLane(ctxlane[lctx])] = Append(@, lctx)]
    /\ lock' = [lock EXCEPT ![PushLane(ctxlane[lctx])] = "free"]
    /\ lpc' = "wait"
    /\ UNCHANGED <<lctx, lreq, lbranch, lastResp, sizes, responses>>
    /\ UNCHANGED <<cvars, tvars, drainLog, execLog, setCount, tickBatch, waited>>

----------------------------------------------------------------------------
\* ExecutionContext.wait and ExecutionContext.to_response

\* Variant of WaitSignaled: wait() returns True without the flag being set.
WaitSignaledEarly ==
    /\ lpc = "wait"
    /\ lpc' = "to_response"
    /\ waited' = [waited EXCEPT ![lctx] = "signaled"]
    /\ UNCHANGED <<lctx, lreq, lbranch, lastResp, sizes, responses>>
    /\ UNCHANGED <<qvars, cvars, tvars, pushLog, drainLog, execLog, setCount, tickBatch>>

\* self.done.wait(timeout=self.timeout) returns True: the flag is set.
WaitSignaled ==
    /\ lpc = "wait"
    /\ done[lctx]
    /\ lpc' = "to_response"
    /\ waited' = [waited EXCEPT ![lctx] = "signaled"]
    /\ UNCHANGED <<lctx, lreq, lbranch, lastResp, sizes, responses>>
    /\ UNCHANGED <<qvars, cvars, tvars, pushLog, drainLog, execLog, setCount, tickBatch>>

\* Variant of WaitTimeout: the timeout cannot elapse while the Dispatcher is
\* inside _execute_context for the context.
WaitTimeoutNotWhileExecuting ==
    /\ lpc = "wait"
    /\ ~done[lctx]
    /\ cur # lctx
    /\ lpc' = "timeout_write"
    /\ waited' = [waited EXCEPT ![lctx] = "timeout"]
    /\ UNCHANGED <<lctx, lreq, lbranch, lastResp, sizes, responses>>
    /\ UNCHANGED <<qvars, cvars, tvars, pushLog, drainLog, execLog, setCount, tickBatch>>

\* self.done.wait(timeout=self.timeout) returns False: the timeout elapsed
\* with the flag still unset.  The assignment of line 77 is a later step.
WaitTimeout ==
    /\ lpc = "wait"
    /\ ~done[lctx]
    /\ lpc' = "timeout_write"
    /\ waited' = [waited EXCEPT ![lctx] = "timeout"]
    /\ UNCHANGED <<lctx, lreq, lbranch, lastResp, sizes, responses>>
    /\ UNCHANGED <<qvars, cvars, tvars, pushLog, drainLog, execLog, setCount, tickBatch>>

\* Variant of TimeoutError: the timeout path leaves self.error as it is.
TimeoutErrorKept(e) == e

\* The value line 77 stores in self.error.
TimeoutError(e) == "timeout"

\* self.error = f"Execution timed out after {self.timeout}s"
WriteTimeout ==
    /\ lpc = "timeout_write"
    /\ error' = [error EXCEPT ![lctx] = TimeoutError(@)]
    /\ lpc' = "to_response"
    /\ UNCHANGED <<lctx, lreq, lbranch, lastResp, sizes, responses>>
    /\ UNCHANGED <<qvars, nctx, script, ctxlane, result, done, tvars, hvars>>

\* Variant of ErrorSet: the test never finds an error.
ErrorSetNever(e) == FALSE

\* Truth value of self.error in `if self.error:`
ErrorSet(e) == e # "None"

\* Variant of BuildResponse: the test of to_response is inverted.
BuildResponseInverted(br, e, r) ==
    IF ~br THEN [status |-> 200, success |-> FALSE, error |-> e, result |-> "empty"]
           ELSE [status |-> 200, success |-> TRUE, error |-> "None", result |-> r]

\* The dict to_response returns, given the branch taken and the fields read.
BuildResponse(br, e, r) ==
    IF br THEN [status |-> 200, success |-> FALSE, error |-> e, result |-> "empty"]
          ELSE [status |-> 200, success |-> TRUE, error |-> "None", result |-> r]

\* to_response: `if self.error:`
ToResponseCheck ==
    /\ lpc = "to_response"
    /\ lbranch' = ErrorSet(error[lctx])
    /\ lpc' = "respond"
    /\ UNCHANGED <<lctx, lreq, lastResp, sizes, responses>>
    /\ UNCHANGED <<qvars, cvars, tvars, hvars>>

\* to_response: the return statement, then self._respond(200, json.dumps(...))
Respond ==
    /\ lpc = "respond"
    /\ responses' = [responses EXCEPT
                       ![lctx] = BuildResponse(lbranch, error[lctx], result[lctx])]
    /\ lpc' = "idle"
    /\ lctx' = 0
    /\ lbranch' = FALSE
    /\ UNCHANGED <<lreq, lastResp, sizes>>
    /\ UNCHANGED <<qvars, cvars, tvars, hvars>>

----------------------------------------------------------------------------
\* _on_slate_post_tick, _drain_queue, ThreadSafeQueue.drain

\* The host calls _on_slate_post_tick.
TickStart ==
    /\ tpc = "idle"
    /\ tpc' = "drain_lock"
    /\ tlane' = FirstLane
    /\ UNCHANGED <<items, batch, cur, ns>>
    /\ UNCHANGED <<qvars, cvars, lvars, hvars>>

\* drain: `with self._lock:`
DrainAcquire ==
    /\ tpc = "drain_lock"
    /\ LockFree(tlane)
    /\ lock' = [lock EXCEPT ![tlane] = "tick"]
    /\ tpc' = "drain_copy"
    /\ UNCHANGED <<queue, tlane, items, batch, cur, ns>>
    /\ UNCHANGED <<cvars, lvars, hvars>>

\* drain: items = self._items[:]
DrainCopy ==
    /\ tpc = "drain_copy"
    /\ items' = CopyItems(queue[tlane])
    /\ tpc' = "drain_clear"
    /\ UNCHANGED <<tlane, batch, cur, ns>>
    /\ UNCHANGED <<qvars, cvars, lvars, hvars>>

\* Variant of DrainClear: the lock is still held when drain returns.
DrainClearKeepsLock ==
    /\ tpc = "drain_clear"
    /\ queue' = [queue EXCEPT ![tlane] = ClearItems(@)]
    /\ batch' = items
    /\ items' = <<>>
    /\ drainLog' = [drainLog EXCEPT ![tlane] = @ \o items]
    /\ tickBatch' = Append(tickBatch, <<tlane, items>>)
    /\ tpc' = "loop"
    /\ UNCHANGED <<lock, tlane, cur, ns>>
    /\ UNCHANGED <<cvars, lvars, pushLog, execLog, setCount, waited>>

\* drain: self._items.clear(); return items (the lock is released); the
\* returned list is what the for loop of _drain_queue iterates.
DrainClear ==
    /\ tpc = "drain_clear"
    /\ queue' = [queue EXCEPT ![tlane] = ClearItems(@)]
    /\ lock' = [lock EXCEPT ![tlane] = "free"]
    /\ batch' = items
    /\ items' = <<>>
    /\ drainLog' = [drainLog EXCEPT ![tlane] = @ \o items]
    /\ tickBatch' = Append(tickBatch, <<tlane, items>>)
    /\ tpc' = "loop"
    /\ UNCHANGED <<tlane, cur, ns>>
    /\ UNCHANGED <<cvars, lvars, pushLog, execLog, setCount, waited>>

\* _drain_queue: `for ctx in ...:` takes the next context and enters
\* _execute_context, which builds the namespace (lines 99-103).
LoopNext ==
    /\ tpc = "loop"
    /\ batch # <<>>
    /\ cur' = Head(batch)
    /\ batch' = Tail(batch)
    /\ ns' = [rebound |-> FALSE, val |-> "empty"]
    /\ execLog' = Append(execLog, Head(batch))
    /\ tpc' = "exec"
    /\ UNCHANGED <<tlane, items>>
    /\ UNCHANGED <<qvars, cvars, lvars, pushLog, drainLog, setCount, tickBatch, waited>>

\* _drain_queue returns: the next statement of _on_slate_post_tick drains
\* the game queue, or the callback returns.
LoopEnd ==
    /\ tpc = "loop"
    /\ batch = <<>>
    /\ IF tlane = FirstLane
         THEN tlane' = LaneOrder[2] /\ tpc' = "drain_lock" /\ UNCHANGED tickBatch
         ELSE tlane' = FirstLane /\ tpc' = "idle" /\ tickBatch' = <<>>
    /\ UNCHANGED <<items, batch, cur, ns>>
    /\ UNCHANGED <<qvars, cvars, lvars, pushLog, drainLog, execLog, setCount, waited>>

----------------------------------------------------------------------------
\* _execute_context

\* What exec(ctx.script, namespace) does to the dict ctx.result refers to.
PayloadResult(s, r) == IF s \in {"mutate", "fault"} THEN "x2" ELSE r

\* What exec(ctx.script, namespace) leaves in namespace["result"].
PayloadNs(s, n) == IF s \in {"rebind", "fault"} THEN [rebound |-> TRUE, val |-> "new"] ELSE n

\* How exec leaves: normally, with an Exception, or with a BaseException
\* that `except Exception` does not catch.
PayloadExit(s) ==
    CASE s = "fault" -> "exception"
      [] s = "escape" -> "base"
      [] OTHER -> "normal"

\* exec(ctx.script, namespace)
ExecPayload ==
    /\ tpc = "exec"
    /\ result' = [result EXCEPT ![cur] = PayloadResult(script[cur], @)]
    /\ ns' = PayloadNs(script[cur], ns)
    /\ tpc' = CASE PayloadExit(script[cur]) = "normal" -> "rebind_check"
                [] PayloadExit(script[cur]) = "exception" -> "except"
                [] OTHER -> "finally"
    /\ UNCHANGED <<tlane, items, batch, cur>>
    /\ UNCHANGED <<qvars, nctx, script, ctxlane, error, done, lvars, hvars>>

\* Variant of Rebind: a rebound name is not looked at.
RebindIgnored(n, r) == r

\* if "result" in namespace and namespace["result"] is not ctx.result:
\*     ctx.result = namespace["result"]
Rebind(n, r) == IF n.rebound THEN n.val ELSE r

RebindCheck ==
    /\ tpc = "rebind_check"
    /\ result' = [result EXCEPT ![cur] = Rebind(ns, @)]
    /\ tpc' = "finally"
    /\ UNCHANGED <<tlane, items, batch, cur, ns>>
    /\ UNCHANGED <<qvars, nctx, script, ctxlane, error, done, lvars, hvars>>

\* Variant of Traceback: the text stored is empty, which tests as unset.
TracebackEmpty(e) == "None"

\* except Exception: ctx.error = traceback.format_exc()
Traceback(e) == "traceback"

Except ==
    /\ tpc = "except"
    /\ error' = [error EXCEPT ![cur] = Traceback(@)]
    /\ tpc' = "finally"
    /\ UNCHANGED <<tlane, items, batch, cur, ns>>
    /\ UNCHANGED <<qvars, nctx, script, ctxlane, result, done, lvars, hvars>>

\* Variant of FinallyRuns: done.set() follows the try statement instead of
\* standing in a finally clause, so an uncaught exception skips it.
FinallySkippedOnEscape(x) == x # "base"

\* Whether the finally clause is reached on the given exit of exec.
FinallyRuns(x) == TRUE

\* finally: ctx.done.set().  After it an uncaught BaseException goes on
\* through _drain_queue and _on_slate_post_tick: the rest of the drained
\* list is dropped with the frame and the callback ends.
Finally ==
    /\ tpc = "finally"
    /\ IF FinallyRuns(PayloadExit(script[cur]))
         THEN /\ done' = [done EXCEPT ![cur] = TRUE]
              /\ setCount' = [setCount EXCEPT ![cur] = @ + 1]
         ELSE UNCHANGED <<done, setCount>>
    /\ IF PayloadExit(script[cur]) = "base"
         THEN /\ batch' = <<>>
              /\ tlane' = FirstLane
              /\ tickBatch' = <<>>
              /\ tpc' = "idle"
         ELSE /\ batch' = batch
              /\ tlane' = tlane
              /\ tickBatch' = tickBatch
              /\ tpc' = "loop"
    /\ cur' = 0
    /\ ns' = [rebound |-> FALSE, val |-> "empty"]
    /\ UNCHANGED items
    /\ UNCHANGED <<qvars, nctx, script, ctxlane, result, error, lvars>>
    /\ UNCHANGED <<pushLog, drainLog, execLog, waited>>

----------------------------------------------------------------------------
\* The lane whose len() do_GET takes next: editor_queue_size is built first.
HealthLane == IF sizes[LaneOrder[1]] = -1 THEN LaneOrder[1] ELSE LaneOrder[2]

\* do_GET for /health: the dict literal is about to be built.
DoGetHealth ==
    /\ ServerIdle
    /\ lpc' = "len_lock"
    /\ UNCHANGED <<lctx, lreq, lbranch, lastResp, sizes, responses>>
    /\ UNCHANGED <<qvars, cvars, tvars, hvars>>

\* do_GET for any other path: 404, nothing else.
DoGetNotFound ==
    /\ ServerIdle
    /\ \E r \in Requests :
         /\ r.path # "/execute"
         /\ lreq' = r
         /\ lastResp' = [status |-> 404, success |-> FALSE,
                         error |-> "Not found", result |-> "empty"]
    /\ lpc' = "rejected"
    /\ UNCHANGED <<lctx, lbranch, sizes, responses>>
    /\ UNCHANGED <<qvars, cvars, tvars, hvars>>

\* Variant of LenItems: the length is taken one too large.
LenItemsOffByOne(q) == Len(q) + 1

\* len(self._items)
LenItems(q) == Len(q)

\* __len__: `with self._lock:`
LenAcquire ==
    /\ lpc = "len_lock"
    /\ LockFree(HealthLane)
    /\ lock' = [lock EXCEPT ![HealthLane] = "listener"]
    /\ lpc' = "len_read"
    /\ UNCHANGED <<queue, lctx, lreq, lbranch, lastResp, sizes, responses>>
    /\ UNCHANGED <<cvars, tvars, hvars>>

\* __len__: `return len(self._items)`, then the lock is released.
LenRead ==
    /\ lpc = "len_read"
    /\ sizes' = [sizes EXCEPT ![HealthLane] = LenItems(queue[HealthLane])]
    /\ lock' = [lock EXCEPT ![HealthLane] = "free"]
    /\ lpc' = IF HealthLane = LaneOrder[1] THEN "len_lock" ELSE "health_respond"
    /\ UNCHANGED <<queue, lctx, lreq, lbranch, lastResp, responses>>
    /\ UNCHANGED <<cvars, tvars, hvars>>

\* do_GET: self._respond(200, body) with the two sizes, and the handler returns.
HealthRespond ==
    /\ lpc = "health_respond"
    /\ lpc' = "idle"
    /\ sizes' = [L \in Lanes |-> -1]
    /\ UNCHANGED <<lctx, lreq, lbranch, lastResp, responses>>
    /\ UNCHANGED <<qvars, cvars, tvars, hvars>>

Listener ==
    \/ DoPostReject \/ DoPostReturn \/ DoPostAccept \/ PushAcquire \/ PushAppend
    \/ WaitSignaled \/ WaitTimeout \/ WriteTimeout
    \/ ToResponseCheck \/ Respond
    \/ DoGetHealth \/ DoGetNotFound \/ LenAcquire \/ LenRead \/ HealthRespond

Tick ==
    \/ TickStart \/ DrainAcquire \/ DrainCopy \/ DrainClear
    \/ LoopNext \/ LoopEnd
    \/ ExecPayload \/ RebindCheck \/ Except \/ Finally

Next == Listener \/ Tick

Spec == Init /\ [][Next]_vars

\* The listener thread keeps running and the timeout of Event.wait elapses:
\* once do_POST is in wait() it goes on to write its response.  Nothing is
\* assumed about the host ever ticking.
ListenerReturns == WaitSignaled \/ WaitTimeout \/ WriteTimeout \/ ToResponseCheck \/ Respond

LiveSpec == Spec /\ WF_vars(ListenerReturns)

----------------------------------------------------------------------------
\* Helpers of the properties

Range(s) == {s[i] : i \in 1..Len(s)}

IsPrefix(s, t) == Len(s) <= Len(t) /\ SubSeq(t, 1, Len(s)) = s

NoDup(s) == \A i, j \in 1..Len(s) : i # j => s[i] # s[j]

Created == 1..nctx

Drained(c) == c \in Range(drainLog[ctxlane[c]])

Entered(c) == c \in Range(execLog)

PushIdx(c) == CHOOSE i \in 1..Len(pushLog[ctxlane[c]]) : pushLog[ctxlane[c]][i] = c

\* A step of the game thread (every step of the tick callback moves tpc).
TickStep == tpc' # tpc

----------------------------------------------------------------------------
\* C1: on each lane queue, under every interleaving of push (listener) and
\* drain (tick), the items pushed so far are exactly the items returned by
\* the drains so far followed by the items still queued, in push order: no
\* item is lost, none is returned twice, a push racing with a drain is wholly
\* in that batch or wholly left for the next one, and the concatenated
\* batches are a prefix of the push order.
C1_PushDrainExactlyOnce ==
    \A L \in Lanes :
        /\ pushLog[L] = drainLog[L] \o queue[L]
        /\ NoDup(pushLog[L])
        /\ IsPrefix(drainLog[L], pushLog[L])

\* A push waits for the lock while a drain of the same queue, which holds a
\* command, is between its copy and its clear.
C1_Witness ==
    /\ lpc = "push_lock"
    /\ lock[ctxlane[lctx]] = "tick"
    /\ tlane = ctxlane[lctx]
    /\ tpc = "drain_clear"
    /\ items # <<>>

\* C2: for every context _execute_context runs, on every exit path, done.set()
\* is called exactly once, the flag is never reset, every context the
\* Dispatcher has left has its flag set, and the Dispatcher writes neither
\* result nor error of a context whose flag is set.
C2_DoneSetOnceAsLastStep ==
    /\ [](\A c \in CtxIds :
            /\ setCount[c] <= 1
            /\ done[c] <=> (setCount[c] = 1)
            /\ (Entered(c) /\ cur # c) => done[c])
    /\ [][\A c \in CtxIds :
            /\ done[c] => done'[c]
            /\ (done[c] /\ TickStep) => (result'[c] = result[c] /\ error'[c] = error[c])]_vars

\* A context whose script left exec with an uncaught BaseException, and one
\* whose script raised an Exception, both have the flag set by one set().
C2_Witness ==
    \E c \in Created :
        /\ PayloadExit(script[c]) = "base"
        /\ done[c]
        /\ setCount[c] = 1
        /\ cur # c

\* C3: when the tick callback has returned, every command of every drained
\* batch has been run by the Dispatcher, and every command whose payload
\* raised has error set, whatever the payload raised.
C3_FaultKeepsBatchGoing ==
    tpc = "idle" =>
        \A c \in Created :
            Drained(c) =>
                /\ Entered(c)
                /\ done[c]
                /\ PayloadExit(script[c]) # "normal" => ErrorSet(error[c])

\* C4: once a context's flag is set, no step of any thread changes its result
\* or its error.
C4_NoWriteAfterDone ==
    [][\A c \in CtxIds :
         done[c] => (result'[c] = result[c] /\ error'[c] = error[c])]_vars

\* C5: the step in which wait() times out leaves both queues as they were,
\* and every timed-out command that a drain has returned has been executed
\* exactly once by the time that tick's callback has returned.
C5_TimeoutLeavesCommandToRun ==
    /\ [][\A c \in CtxIds :
            (waited[c] = "no" /\ waited'[c] = "timeout") => queue' = queue]_vars
    /\ [](tpc = "idle" =>
            \A c \in Created :
                (waited[c] = "timeout" /\ Drained(c)) =>
                    Cardinality({i \in 1..Len(execLog) : execLog[i] = c}) = 1)

\* C6: under LiveSpec (the listener runs, no tick is assumed), a request that
\* is waiting on its context is eventually answered; and the answer to a
\* context that no drain has returned is {success: false, error: timed out}.
C6_TimeoutAnswersWithoutTick ==
    /\ \A c \in CtxIds : (lpc = "wait" /\ lctx = c) ~> (responses[c].status = 200)
    /\ [](\A c \in Created :
            (responses[c].status = 200 /\ ~Drained(c)) =>
                /\ waited[c] = "timeout"
                /\ responses[c] = [status |-> 200, success |-> FALSE,
                                   error |-> "timeout", result |-> "empty"])

\* A request was answered with the timeout error while its command is still
\* in its queue and the tick callback has never run.
C6_Witness ==
    \E c \in Created :
        /\ responses[c].status = 200
        /\ responses[c].error = "timeout"
        /\ c \in Range(queue[ctxlane[c]])
        /\ execLog = <<>>
        /\ tpc = "idle"

\* The final result the Dispatcher leaves for a script that ends normally.
FinalResult(s) == IF s = "rebind" THEN "new" ELSE "x2"

\* C7: a request whose wait() was ended by the signal and whose payload ended
\* without a fault is answered {success: true, result: R} with R the result
\* field of its context, which is what the payload produced (result['x']=1+1
\* gives {x: 2}); no response is built before wait() has returned.
C7_SuccessResponseCarriesResult ==
    \A c \in Created :
        /\ responses[c].status # 0 => waited[c] # "no"
        /\ (responses[c].status # 0 /\ waited[c] = "signaled"
              /\ PayloadExit(script[c]) = "normal") =>
                /\ responses[c] = [status |-> 200, success |-> TRUE,
                                   error |-> "None", result |-> result[c]]
                /\ result[c] = FinalResult(script[c])

\* A request with script result['x']=1+1 was woken by the signal and answered
\* with {success: true, result: {x: 2}}.
C7_Witness ==
    \E c \in Created :
        /\ script[c] = "mutate"
        /\ waited[c] = "signaled"
        /\ responses[c].success
        /\ responses[c].result = "x2"

\* The request is a POST /execute whose body is a JSON object.
IsExecute(r) == r.path = "/execute" /\ r.body = "object"

\* The step of a do_POST call that ends without creating a context.
RejectStep == lpc = "idle" /\ lpc' = "rejected"

\* C8: an Execute request whose mode is neither editor nor game is answered
\* 400 {success: false, error}, creates no context and leaves both queues as
\* they were.
C8_UnknownModeRejected ==
    /\ []((lpc = "rejected" /\ IsExecute(lreq) /\ ModeOf(lreq) \notin Lanes) =>
            (lastResp.status = 400 /\ ~lastResp.success /\ lastResp.error # "None"))
    /\ [][RejectStep => (queue' = queue /\ nctx' = nctx)]_vars

\* The body of a POST /execute is malformed: not decodable, not an object,
\* or its timeout member is not a number.
Malformed(r) ==
    /\ r.path = "/execute"
    /\ \/ r.body \in {"undecodable", "nonobject"}
       \/ r.timeout \in {"numstring", "badstring"}

\* C9: every malformed POST /execute is answered 400 {success: false, error}
\* by a do_POST call that creates no context and enqueues nothing.
C9_MalformedRejected ==
    /\ []((lpc = "rejected" /\ Malformed(lreq)) =>
            (lastResp.status = 400 /\ ~lastResp.success /\ lastResp.error # "None"))
    /\ [][(RejectStep /\ Malformed(lreq')) => (queue' = queue /\ nctx' = nctx)]_vars

----------------------------------------------------------------------------
\* C11: in every tick the editor queue is drained first and every command of
\* that batch has completed (its signal is set) before the game queue is
\* drained; so while the game thread works on the game lane, and whenever a
\* game batch has been drained in the tick, the first drain of the tick was
\* the editor's and every command of that batch has its signal set.
C11_EditorBeforeGame ==
    /\ (tpc # "idle" /\ tlane = "game") =>
          /\ Len(tickBatch) >= 1
          /\ tickBatch[1][1] = "editor"
          /\ \A c \in Range(tickBatch[1][2]) : done[c]
    /\ \A i \in 1..Len(tickBatch) :
          tickBatch[i][1] = "game" =>
             /\ i = 2
             /\ tickBatch[1][1] = "editor"
             /\ \A c \in Range(tickBatch[1][2]) : done[c] /\ c \in Range(execLog)
    /\ (cur # 0 /\ cur \in Range(drainLog["game"])) =>
          /\ Len(tickBatch) = 2
          /\ \A c \in Range(tickBatch[1][2]) : done[c]

\* A game-lane command is inside _execute_context in a tick whose editor batch
\* was not empty.
C11_Witness ==
    /\ tpc = "finally"
    /\ cur # 0
    /\ Len(tickBatch) = 2
    /\ tickBatch[1][2] # <<>>
    /\ cur \in Range(tickBatch[2][2])

----------------------------------------------------------------------------
\* The contexts whose request has not been answered yet.
Unanswered == {c \in Created : responses[c].status = 0}

\* C12 (as stated): a request blocked in wait() does not delay another
\* request: while one handler is in wait(), a further Execute request can be
\* decoded and answered and a status query can be served.
C12_WaitDelaysNoOtherRequest ==
    lpc = "wait" => (ENABLED DoPostReject) /\ (ENABLED DoGetHealth)

\* C12 (amended): requests are handled one at a time by the one listener
\* thread: at most one Execute request is unanswered at any time, it is the
\* one the handler is working on, and no other request (rejected Execute,
\* status query) is being handled while an Execute request is unanswered.
C12_OneRequestAtATime ==
    /\ Cardinality(Unanswered) <= 1
    /\ \A c \in Unanswered : lctx = c
    /\ lpc \in {"rejected", "len_lock", "len_read", "health_respond"} =>
          Unanswered = {}

\* A second Execute request is in wait() after the first one, which timed out
\* and is still queued, has been answered.
C12_Witness ==
    /\ lpc = "wait"
    /\ lctx = 2
    /\ ~done[2]
    /\ waited[1] = "timeout"
    /\ responses[1].status = 200
    /\ 1 \in Range(queue[PushLane(ctxlane[1])])

----------------------------------------------------------------------------
\* Number of positions of sequence q that hold c.
Occurrences(q, c) == Cardinality({i \in 1..Len(q) : q[i] = c})

\* The handler of context c is past its push.
PushReturned(c) == ~(lctx = c /\ lpc \in {"push_lock", "push_append"})

C13_State ==
    /\ \A c \in Created :
          /\ Occurrences(pushLog["editor"] \o pushLog["game"], c) <= 1
          /\ \A L \in Lanes : c \in Range(pushLog[L]) => L = ctxlane[c]
          /\ PushReturned(c) => Occurrences(pushLog[ctxlane[c]], c) = 1
    /\ \A c \in CtxIds \ Created :
          c \notin Range(pushLog["editor"] \o pushLog["game"])
    /\ NoDup(execLog)

C13_Step ==
    /\ nctx' \in {nctx, nctx + 1}
    /\ nctx' = nctx + 1 =>
          /\ lctx' = nctx'
          /\ result'[nctx'] = "empty" /\ error'[nctx'] = "None" /\ ~done'[nctx']
          /\ UNCHANGED queue
    /\ lctx # 0 => ctxlane'[lctx] = ctxlane[lctx]
    /\ (lpc = "push_append" /\ lpc' # lpc) =>
          /\ queue'[ctxlane[lctx]] = Append(queue[ctxlane[lctx]], lctx)
          /\ \A L \in Lanes \ {ctxlane[lctx]} : queue'[L] = queue[L]

\* C13: every accepted Execute request creates one fresh context and pushes
\* it exactly once, into the lane its mode names, leaving the other lane's
\* queue as it was; and no context enters _execute_context more than once,
\* whether or not its waiter timed out.
C13_OneContextOnePushOneRun == []C13_State /\ [][C13_Step]_vars

\* An editor command whose waiter timed out and a game command have both
\* been pushed and run, each in its own lane.
C13_Witness ==
    /\ tpc = "idle"
    /\ Len(execLog) = 2
    /\ waited[1] = "timeout"
    /\ ctxlane[1] = "editor" /\ pushLog["editor"] = <<1>>
    /\ ctxlane[2] = "game" /\ pushLog["game"] = <<2>>

----------------------------------------------------------------------------
\* Context c has been appended to a queue.
Pushed(c) == c \in Range(pushLog["editor"] \o pushLog["game"])

\* Context c is where a tick can still reach it: in a queue, in the list the
\* for loop of _drain_queue iterates, or inside _execute_context.
Pending(c) == \/ \E L \in Lanes : c \in Range(queue[L])
              \/ c \in Range(batch)
              \/ cur = c

\* C14: no pushed context is left for ever with its signal unset: as the
\* signal is set only by the _execute_context that runs the context, every
\* pushed context whose signal is unset is still queued, still in the batch
\* being run, or being executed (also when an earlier command of its batch
\* faulted), so that the ticks to come reach it.
C14_PushedContextIsSignalledOrPending ==
    \A c \in Created : (Pushed(c) /\ ~done[c]) => Pending(c)

----------------------------------------------------------------------------
\* C17: no fault of a payload leaves _execute_context: after the finally
\* clause control is back in the for loop of _drain_queue with the rest of
\* the batch, and _on_slate_post_tick ends only by returning after the loop
\* over the game batch is exhausted.
C17_NoFaultLeavesExecuteContext ==
    [][/\ (tpc = "finally" /\ tpc' # tpc) => (tpc' = "loop" /\ batch' = batch)
       /\ (tpc # "idle" /\ tpc' = "idle") =>
             (tpc = "loop" /\ tlane = LaneOrder[2] /\ batch = <<>>)]_vars

----------------------------------------------------------------------------
\* The positions of the listener inside do_GET for /health.
HealthPcs == {"len_lock", "len_read", "health_respond"}

\* A step of do_GET for /health.
HealthStep == lpc' # lpc /\ (lpc \in HealthPcs \/ lpc' \in HealthPcs)

\* C15: a status query returns for each lane a length its queue had at an
\* instant of the request (the length is read, under the lock of that queue,
\* from the queue as it is then, and is what the response carries), and the
\* query changes nothing: no step of it changes the contents or order of a
\* queue or any field of any context.
C15_HealthReadsAndChangesNothing ==
    /\ [](/\ lpc \notin HealthPcs => \A L \in Lanes : sizes[L] = -1
          /\ lpc = "health_respond" => \A L \in Lanes : sizes[L] >= 0)
    /\ [][/\ HealthStep =>
               /\ UNCHANGED <<queue, cvars, responses>>
               /\ UNCHANGED <<pushLog, drainLog, execLog, setCount, waited>>
          /\ \A L \in Lanes :
               /\ (sizes'[L] # sizes[L] /\ sizes'[L] # -1) =>
                     /\ sizes'[L] = Len(queue[L])
                     /\ lock[L] = "listener"
               /\ (sizes[L] # -1 /\ lpc' # "idle") => sizes'[L] = sizes[L]]_vars

\* A status query is about to answer editor_queue_size 1 when a tick has
\* meanwhile drained the editor queue.
C15_Witness ==
    /\ lpc = "health_respond"
    /\ sizes["editor"] = 1
    /\ queue["editor"] = <<>>

----------------------------------------------------------------------------
\* The listener has just ended a POST /execute without creating a context
\* and has written a response for it.
ValidationAnswered ==
    lpc = "rejected" /\ lreq.path = "/execute" /\ lastResp.status # 0

\* C16 (as stated): validation errors, execution errors and timeouts are all
\* reported with the same success transport status (200), the error being
\* carried only in the body.
C16_AllErrorsShareSuccessStatus ==
    /\ ValidationAnswered => lastResp.status = 200
    /\ \A c \in Created :
          (responses[c].status # 0 /\ ~responses[c].success) =>
             responses[c].status = 200

\* C16 (amended): every response to an accepted request has status 200,
\* whatever the outcome: a fault that _execute_context caught and a timeout
\* are carried in the body only ({success: false, error}); a validation
\* error that is answered is answered with status 400 and the same body
\* shape, never with 200.
C16_StatusByErrorKind ==
    /\ ValidationAnswered =>
          (lastResp.status = 400 /\ ~lastResp.success /\ lastResp.error # "None")
    /\ \A c \in Created :
          responses[c].status # 0 =>
             /\ responses[c].status = 200
             /\ responses[c].success <=> responses[c].error = "None"
             /\ (waited[c] = "signaled" /\ PayloadExit(script[c]) = "exception") =>
                   (~responses[c].success /\ responses[c].error = "traceback")
             /\ waited[c] = "timeout" =>
                   (~responses[c].success
                      /\ responses[c].error \in {"timeout", "traceback"})

\* A rejected Execute request has just been answered 400 after one request was
\* answered 200 with a traceback and another 200 with the timeout error.
C16_Witness ==
    /\ ValidationAnswered
    /\ lastResp.status = 400
    /\ \E c, d \in Created :
          /\ responses[c] = [status |-> 200, success |-> FALSE,
                             error |-> "traceback", result |-> "empty"]
          /\ responses[d] = [status |-> 200, success |-> FALSE,
                             error |-> "timeout", result |-> "empty"]

----------------------------------------------------------------------------
\* The state of command c: CREATED once its context exists, QUEUED once it has
\* been appended to a queue, EXECUTING while it is inside _execute_context,
\* COMPLETED (COMPLETED_OK or COMPLETED_ERROR, as exec left) once its signal
\* is set.
CmdState(c) ==
    IF c \notin Created THEN "NONE"
    ELSE IF cur = c THEN "EXECUTING"
    ELSE IF done[c] THEN "COMPLETED"
    ELSE IF Pushed(c) THEN "QUEUED"
    ELSE "CREATED"

C18_Step ==
    \A c \in CtxIds :
        CmdState(c)' # CmdState(c) =>
            \/ CmdState(c) = "NONE" /\ CmdState(c)' = "CREATED"
            \/ CmdState(c) = "CREATED" /\ CmdState(c)' = "QUEUED"
            \/ /\ CmdState(c) = "QUEUED" /\ CmdState(c)' = "EXECUTING"
               /\ c \in Range(drainLog[PushLane(ctxlane[c])])
               /\ tlane = PushLane(ctxlane[c])
               /\ batch # <<>> /\ c = Head(batch)
            \/ CmdState(c) = "EXECUTING" /\ CmdState(c)' = "COMPLETED"

\* C18: each command moves only forward through CREATED, QUEUED, EXECUTING,
\* COMPLETED: it is queued only after creation, starts executing only as the
\* next element of a batch that a drain of its lane returned, completes only
\* from executing, and never leaves the completed state or goes back.
C18_CommandMovesForward == [][C18_Step]_vars

\* One command has completed with a recorded fault while another one is
\* executing.
C18_Witness ==
    \E c, d \in Created :
        /\ CmdState(c) = "COMPLETED" /\ error[c] = "traceback"
        /\ CmdState(d) = "EXECUTING"

----------------------------------------------------------------------------
\* The state of the waiter of context c.
WaiterState(c) ==
    CASE waited[c] = "signaled" -> "SIGNALED"
      [] waited[c] = "timeout" -> "TIMED_OUT"
      [] OTHER -> IF lctx = c /\ lpc = "wait" THEN "WAITING" ELSE "NONE"

C19_TimeoutPossible ==
    \A c \in Created :
        (WaiterState(c) = "WAITING" /\ CmdState(c) \in {"QUEUED", "EXECUTING"}) =>
            ENABLED WaitTimeout

C19_Step ==
    \A c \in Created :
        /\ (WaiterState(c) = "WAITING" /\ WaiterState(c)' # "WAITING") =>
              /\ WaiterState(c)' \in {"SIGNALED", "TIMED_OUT"}
              /\ CmdState(c)' = CmdState(c)
        /\ CmdState(c)' # CmdState(c) => waited'[c] = waited[c]
        /\ WaiterState(c) \in {"SIGNALED", "TIMED_OUT"} =>
              WaiterState(c)' = WaiterState(c)

\* C19: the waiter's machine is independent of the command's: a waiter can
\* time out whether its command is QUEUED or EXECUTING, the step that takes
\* the waiter from WAITING to SIGNALED or TIMED_OUT leaves the command's
\* state as it is, and no step of the command moves the waiter; so TIMED_OUT
\* occurs together with QUEUED and together with EXECUTING.
C19_WaiterIndependentOfCommand == []C19_TimeoutPossible /\ [][C19_Step]_vars

\* One waiter has timed out while its command is inside _execute_context and
\* another has timed out while its command is still in its queue.
C19_Witness ==
    \E c, d \in Created :
        /\ WaiterState(c) = "TIMED_OUT" /\ CmdState(c) = "EXECUTING"
        /\ WaiterState(d) = "TIMED_OUT" /\ CmdState(d) = "QUEUED"
        /\ d \in Range(queue[PushLane(ctxlane[d])])

----------------------------------------------------------------------------
\* The result exec and the reassignment check leave for script s, starting
\* from the empty dict of __init__.
DispatcherResult(s) ==
    IF PayloadExit(s) = "normal"
      THEN Rebind(PayloadNs(s, [rebound |-> FALSE, val |-> "empty"]),
                  PayloadResult(s, "empty"))
      ELSE PayloadResult(s, "empty")

\* The error the except clause leaves for script s.
DispatcherError(s) == IF PayloadExit(s) = "exception" THEN Traceback("None") ELSE "None"

C20_State ==
    \A c \in Created :
        waited[c] = "signaled" =>
            /\ done[c] /\ cur # c
            /\ result[c] = DispatcherResult(script[c])
            /\ error[c] = DispatcherError(script[c])
            /\ (lctx = c /\ lpc = "respond") => lbranch = ErrorSet(error[c])
            /\ responses[c].status # 0 =>
                  responses[c] = BuildResponse(ErrorSet(error[c]), error[c], result[c])

C20_Step ==
    \A c \in Created :
        waited'[c] = "signaled" =>
            (done[c] /\ result'[c] = result[c] /\ error'[c] = error[c])

\* C20: when wait() is ended by the signal, every write of the Dispatcher for
\* the command (the payload's effect on the result, an honoured
\* reassignment, the error) was made before the signal was set: the fields
\* hold the Dispatcher's final outcome when wait() returns, no step changes
\* them from then on, and the response is built from exactly them.
C20_SignaledWaiterReadsFinalOutcome == []C20_State /\ [][C20_Step]_vars

\* A waiter woken by the signal was answered the reassigned result, and
\* another one the traceback of its payload's fault.
C20_Witness ==
    \E c, d \in Created :
        /\ waited[c] = "signaled" /\ script[c] = "rebind"
        /\ responses[c] = [status |-> 200, success |-> TRUE,
                           error |-> "None", result |-> "new"]
        /\ waited[d] = "signaled" /\ script[d] = "fault"
        /\ responses[d] = [status |-> 200, success |-> FALSE,
                           error |-> "traceback", result |-> "empty"]


----------------------------------------------------------------------------
\* C21: only the Dispatcher writes the result or the error of a context:
\* every step that changes either field of any context is a step of the tick
\* thread inside _execute_context for that context; no step of the listener
\* thread changes them.
C21_OnlyDispatcherWrites ==
    [][\A c \in CtxIds :
         (result'[c] # result[c] \/ error'[c] # error[c]) =>
            (TickStep /\ cur = c /\ lpc' = lpc)]_vars


----------------------------------------------------------------------------
\* The contexts the drains of the running tick have returned.
TickDrained ==
    UNION {Range(tickBatch[i][2]) : i \in 1..Len(tickBatch)}

\* C22: when the tick callback returns, every command drained during the tick,
\* from either lane, has been run and has its signal set; and while it runs
\* the tick thread is never kept from its next step by anything but a queue
\* lock.
C22_TickRunsAllItDrained ==
    /\ [](tpc \notin {"idle", "drain_lock"} => ENABLED Tick)
    /\ [][(tpc # "idle" /\ tpc' = "idle") =>
            \A c \in TickDrained : c \in Range(execLog') /\ done'[c]]_vars


----------------------------------------------------------------------------
\* The positions of the tick thread inside _execute_context.
ExecPcs == {"exec", "rebind_check", "except", "finally"}

C23_State ==
    /\ Cardinality({c \in Created : CmdState(c) = "EXECUTING"}) <= 1
    /\ \A c \in Range(execLog) : ~done[c] => cur = c
    /\ cur # 0 <=> tpc \in ExecPcs

C23_Step ==
    /\ execLog' # execLog =>
         (TickStep /\ lpc' = lpc /\ tpc = "loop" /\ cur = 0
            /\ \A c \in Range(execLog) : done[c])
    /\ result' # result => (TickStep /\ lpc' = lpc /\ tpc \in ExecPcs)

\* C23: at most one command is executing at any time: a command that has
\* entered _execute_context and whose signal is unset is the one the tick
\* thread is inside, and the next one enters only when every earlier one has
\* its signal set; payloads are entered and take effect only in steps of the
\* tick thread, never in a step of the listener thread.
C23_OnePayloadAtATimeOnTickThread == []C23_State /\ [][C23_Step]_vars

\* A payload is running on the tick thread after another command has
\* completed, while the listener thread is blocked in wait().
C23_Witness ==
    /\ tpc = "exec"
    /\ cur # 0
    /\ \E c \in Range(execLog) : c # cur /\ done[c]
    /\ lpc = "wait"


----------------------------------------------------------------------------
\* Script s rebinds the name `result` in its namespace.
Rebinds(s) == PayloadNs(s, [rebound |-> FALSE, val |-> "empty"]).rebound

\* The original mapping with the in-place mutations of script s.
MutatedInPlace(s) == PayloadResult(s, "empty")

C24_Fixed ==
    \A c \in CtxIds : (done[c] /\ TickStep) => result'[c] = result[c]

\* C24 (as stated): once the signal of a context is set, its result is the
\* rebound value if the payload rebound the name `result`, and the original
\* mapping with the payload's in-place mutations if it did not; no step of
\* the Dispatcher changes it afterwards.
C24_RebindAlwaysHonoured ==
    /\ [](\A c \in Created :
            done[c] => result[c] = IF Rebinds(script[c]) THEN "new"
                                   ELSE MutatedInPlace(script[c]))
    /\ [][C24_Fixed]_vars

\* C24 (amended): once the signal of a context is set, its result is the
\* rebound value if the payload rebound the name `result` and ended without
\* raising; if it did not rebind, or raised after rebinding, the result is
\* the original mapping with the payload's in-place mutations; no step of
\* the Dispatcher changes it afterwards.
C24_RebindHonouredOnNormalExit ==
    /\ [](\A c \in Created :
            done[c] => result[c] =
               IF Rebinds(script[c]) /\ PayloadExit(script[c]) = "normal"
                 THEN "new" ELSE MutatedInPlace(script[c]))
    /\ [][C24_Fixed]_vars

\* One payload rebound the name and ended normally (the result is the new
\* value); another mutated, rebound and then raised (the result is the
\* original mapping as mutated).
C24_Witness ==
    \E c, d \in Created :
        /\ done[c] /\ script[c] = "rebind" /\ result[c] = "new"
        /\ done[d] /\ script[d] = "fault" /\ result[d] = "x2"


----------------------------------------------------------------------------
\* A step of to_response on the listener thread.
ToResponseStep == lpc \in {"to_response", "respond"} /\ lpc' # lpc

C25_Step ==
    /\ ToResponseStep => UNCHANGED <<cvars, queue>>
    /\ \A c \in Created :
         responses'[c] # responses[c] =>
            /\ lpc = "respond" /\ lctx = c
            /\ responses'[c] =
                 IF error[c] # "None"
                   THEN [status |-> 200, success |-> FALSE,
                         error |-> error[c], result |-> "empty"]
                   ELSE [status |-> 200, success |-> TRUE,
                         error |-> "None", result |-> result[c]]

C25_State ==
    \A c \in Created :
        responses[c].status # 0 =>
            /\ responses[c].success => responses[c].error = "None"
            /\ ~responses[c].success =>
                 (responses[c].error # "None" /\ responses[c].result = "empty")

\* C25: to_response returns {success: false, error} whenever the error of the
\* context is set, whatever its result holds, and {success: true, result}
\* otherwise; no body carries both a result and an error; and no step of
\* to_response changes the context.
C25_ToResponseByError == []C25_State /\ [][C25_Step]_vars

\* to_response is about to return {success: false, error} for a context
\* whose result is not empty.
C25_Witness ==
    /\ lpc = "respond"
    /\ lbranch
    /\ error[lctx] # "None"
    /\ result[lctx] = "x2"


----------------------------------------------------------------------------
\* The tick thread is working on a lane that its drain found empty: it is
\* inside drain() with the lock held and the list empty, or in the for loop
\* over the empty list that drain() returned.
OnEmptyLane ==
    \/ tpc \in {"drain_copy", "drain_clear"} /\ queue[tlane] = <<>>
    \/ /\ tpc = "loop"
       /\ tickBatch # <<>>
       /\ tickBatch[Len(tickBatch)] = <<tlane, <<>>>>

C26_Step ==
    (TickStep /\ OnEmptyLane) =>
        /\ UNCHANGED <<queue, cvars, responses>>
        /\ UNCHANGED <<pushLog, drainLog, execLog, setCount, waited>>
        /\ cur' = 0 /\ batch' = <<>>
        /\ tpc' \in {"drain_clear", "loop", "drain_lock", "idle"}

C26_State == OnEmptyLane => (cur = 0 /\ batch = <<>>)

\* C26: a tick that finds a lane empty does nothing for that lane: its steps
\* from the drain of the empty queue to the end of the loop over the empty
\* batch call no _execute_context, set no signal and change no context and no
\* queue; a tick that finds both lanes empty changes nothing at all.
C26_EmptyLaneIsNoOp == []C26_State /\ [][C26_Step]_vars

\* A tick has found both lanes empty and is about to return, while a command
\* pushed after the editor drain is waiting in the editor queue.
C26_Witness ==
    /\ tpc = "loop"
    /\ tlane = "game"
    /\ tickBatch = <<<<"editor", <<>>>>, <<"game", <<>>>>>>
    /\ queue["editor"] # <<>>


----------------------------------------------------------------------------
\* The lane whose lock the listener thread holds or asks for.
ListenerLane ==
    IF lpc \in {"push_lock", "push_append"} THEN PushLane(ctxlane[lctx])
    ELSE HealthLane

\* The listener thread is waiting for a lock another thread holds.
ListenerBlocked ==
    lpc \in {"push_lock", "len_lock"} /\ lock[ListenerLane] # "free"

\* The tick thread is waiting for a lock another thread holds.
TickBlocked == tpc = "drain_lock" /\ lock[tlane] # "free"

\* C27: a queue's lock is held only inside push, drain and __len__ of that
\* queue: never while a payload executes, never while the listener is in
\* wait(); the two threads never block each other (a thread waiting for a
\* lock waits for a holder that can take its next step), and a push that
\* arrives while a payload runs can take the lock at once.
C27_LockOnlyInQueueMethods ==
    /\ \A L \in Lanes :
         /\ lock[L] = "listener" <=>
              (lpc \in {"push_append", "len_read"} /\ ListenerLane = L)
         /\ lock[L] = "tick" <=>
              (tpc \in {"drain_copy", "drain_clear"} /\ tlane = L)
    /\ tpc \in ExecPcs => \A L \in Lanes : lock[L] # "tick"
    /\ lpc = "wait" => \A L \in Lanes : lock[L] # "listener"
    /\ ~(ListenerBlocked /\ TickBlocked)
    /\ ListenerBlocked => ENABLED Tick
    /\ TickBlocked => ENABLED Listener
    /\ (lpc = "push_lock" /\ tpc \in ExecPcs) => ENABLED PushAcquire

\* A push to the editor queue arrives while a payload drained from the editor
\* queue is running.
C27_Witness ==
    /\ lpc = "push_lock"
    /\ ListenerLane = "editor"
    /\ tpc = "exec"
    /\ tlane = "editor"


----------------------------------------------------------------------------
\* The step in which _on_slate_post_tick ends.
TickEnds == tpc # "idle" /\ tpc' = "idle"

\* C28: a command that is in a lane's queue when the tick drains that lane is
\* executed within that tick; a command enters _execute_context only if a
\* drain of the running tick returned it (one pushed after the drain of its
\* lane waits for a later tick); and the game lane is drained in every tick
\* after the editor batch, so a game command pushed while the editor batch is
\* executing is executed in the running tick.
C28_DrainedRunsInSameTick ==
    [][/\ TickEnds =>
            /\ \A c \in TickDrained : c \in Range(execLog')
            /\ Len(tickBatch) = 2 /\ tickBatch[2][1] = "game"
       /\ execLog' # execLog =>
            (batch # <<>> /\ Head(batch) \in TickDrained
               /\ execLog' = Append(execLog, Head(batch)))]_vars


----------------------------------------------------------------------------
C29_State ==
    \A c \in Created :
        waited[c] = "timeout" =>
            /\ (lctx = c /\ lpc \in {"to_response", "respond"}) => error[c] # "None"
            /\ (lctx = c /\ lpc = "respond") => lbranch
            /\ responses[c].status # 0 =>
                 (~responses[c].success /\ responses[c].result = "empty"
                    /\ responses[c].error # "None" /\ error[c] # "None")

C29_Step ==
    \A c \in CtxIds : error[c] # "None" => error'[c] # "None"

\* C29: the error of a context never goes from set back to unset; so from the
\* moment the waiter has written the timeout error, to_response on that
\* context yields {success: false, error} and no result, whether the
\* Dispatcher later succeeds or later overwrites the text with a traceback.
C29_ErrorStaysSet == []C29_State /\ [][C29_Step]_vars

\* A request was answered with the timeout error; its command then ran and
\* faulted, and the traceback replaced the timeout text in the context.
C29_Witness ==
    \E c \in Created :
        /\ waited[c] = "timeout"
        /\ responses[c].status = 200 /\ responses[c].error = "timeout"
        /\ done[c] /\ error[c] = "traceback"


----------------------------------------------------------------------------
\* The contexts that are in one of the two queues.
Queued == Range(queue["editor"]) \cup Range(queue["game"])

\* C30: the one listener thread serves one request at a time: at most one
\* Execute request is in wait(), so at most one queued command has a waiter
\* that has not timed out, namely the one of the request being handled;
\* every other queued command belongs to a request that has already been
\* answered with the timeout error.
C30_OneWaiterOthersTimedOut ==
    /\ Cardinality({c \in Created : WaiterState(c) = "WAITING"}) <= 1
    /\ Cardinality({c \in Queued : waited[c] # "timeout"}) <= 1
    /\ \A c \in Queued :
         /\ waited[c] # "timeout" => (lctx = c /\ lpc = "wait")
         /\ lctx # c =>
              /\ waited[c] = "timeout"
              /\ responses[c] = [status |-> 200, success |-> FALSE,
                                 error |-> "timeout", result |-> "empty"]

\* Two commands are queued: the request of the first was answered with the
\* timeout error, the request of the second is in wait().
C30_Witness ==
    /\ Cardinality(Queued) = 2
    /\ lpc = "wait"
    /\ lctx \in Queued
    /\ \E c \in Queued : c # lctx /\ responses[c].error = "timeout"

====
